---- MODULE Spec2Model ----
(***************************************************************************)
(* Arkanoid2011, src/Arkanoid2011/main.cpp (the SFML game, lines 9-455):   *)
(* the entity Manager, the Ball / Paddle / Brick entities, the collision   *)
(* resolution functions and the frame loop of Game::run.                   *)
(*                                                                         *)
(* All coordinates of the program are floats holding small integers        *)
(* (positions are sums of multiples of 8, 23 and 63 and half extents are   *)
(* 10 and 30), so they are modelled as integers exactly.                   *)
(***************************************************************************)
EXTENDS Integers, Sequences, FiniteSets, TLC

VARIABLES
    pc,                     \* position of main() / Game::run
    state,                  \* Game::state
    pausePressedLastFrame,  \* Game::pausePressedLastFrame
    remainingLives,         \* Game::remainingLives
    manager,                \* Game::manager (entities, groupedEntities)
    keys,                   \* keys found down by sf::Keyboard::isKeyPressed in this frame
    drawn,                  \* ids handed to the window by the last manager.draw
    ticks,                  \* simulated frames since the last restart (bounded)
    shapes                  \* the arguments and results of isIntersecting called on its own

vars == <<pc, state, pausePressedLastFrame, remainingLives, manager, keys, drawn, ticks,
          shapes>>

(***************************************************************************)
(* Program constants.                                                      *)
(***************************************************************************)
wndWidth == 800
wndHeight == 600
BallDefRadius == 10
BallDefVelocity == 8
PaddleDefWidth == 60
PaddleDefHeight == 20
PaddleDefVelocity == 8
BrickDefWidth == 60
BrickDefHeight == 20
brkCountX == 11
brkCountY == 4
brkStartColumn == 1
brkStartRow == 2
brkSpacing == 3
brkOffsetX == 22
StartLives == 3
PaddleStartOffsetY == 50

(***************************************************************************)
(* Bounds of the model.                                                    *)
(***************************************************************************)
MaxTicks == 48        \* simulated frames per game when the arrow keys are used
MaxIdleTicks == 255   \* simulated frames per game when they are left alone

Types == {"Brick", "Ball", "Paddle"}

Abs(n) == IF n < 0 THEN -n ELSE n

(***************************************************************************)
(* Geometry: Rectangle and Circle edge queries.  The shape origin is the   *)
(* centre, so every edge is the position plus or minus the half extent.    *)
(* A Ball, a Paddle and a Brick have the size their constructor sets; a    *)
(* bare Circle or Rectangle carries its own radius or width and height.    *)
(***************************************************************************)
HalfW(e) == CASE e.type = "Ball" -> BallDefRadius
              [] e.type = "Paddle" -> PaddleDefWidth \div 2
              [] e.type = "Brick" -> BrickDefWidth \div 2
              [] e.type = "Circle" -> e.radius
              [] e.type = "Rectangle" -> e.width \div 2

HalfH(e) == CASE e.type = "Ball" -> BallDefRadius
              [] e.type = "Paddle" -> PaddleDefHeight \div 2
              [] e.type = "Brick" -> BrickDefHeight \div 2
              [] e.type = "Circle" -> e.radius
              [] e.type = "Rectangle" -> e.height \div 2

left(e) == e.x - HalfW(e)
right(e) == e.x + HalfW(e)
top(e) == e.y - HalfH(e)
bottom(e) == e.y + HalfH(e)

\* isIntersecting with the first comparison made strict
isIntersectingStrictFirst(mA, mB) ==
    /\ right(mA) > left(mB)
    /\ left(mA) <= right(mB)
    /\ bottom(mA) >= top(mB)
    /\ top(mA) <= bottom(mB)

isIntersecting(mA, mB) ==
    /\ right(mA) >= left(mB)
    /\ left(mA) <= right(mB)
    /\ bottom(mA) >= top(mB)
    /\ top(mA) <= bottom(mB)

(***************************************************************************)
(* Entity constructors.  `id` stands for the address of the object.        *)
(***************************************************************************)
NewBall(id, mX, mY) ==
    [id |-> id, type |-> "Ball", destroyed |-> FALSE, x |-> mX, y |-> mY,
     vx |-> -BallDefVelocity, vy |-> -BallDefVelocity]

NewPaddle(id, mX, mY) ==
    [id |-> id, type |-> "Paddle", destroyed |-> FALSE, x |-> mX, y |-> mY,
     vx |-> 0, vy |-> 0]

NewBrick(id, mX, mY) ==
    [id |-> id, type |-> "Brick", destroyed |-> FALSE, x |-> mX, y |-> mY,
     requiredHits |-> 1]

(***************************************************************************)
(* Manager.  entities is the owning vector, groupedEntities maps a type to *)
(* the vector of addresses of its instances.                               *)
(***************************************************************************)
EmptyManager ==
    [entities |-> <<>>, groupedEntities |-> [t \in Types |-> <<>>], nextId |-> 1]

\* a run of Manager::create<T> calls, es being the new objects in creation
\* order: each is appended to the group of its type and to entities
ManagerCreateAll(m, es) ==
    [entities |-> m.entities \o es,
     groupedEntities |->
        [t \in Types |->
            LET mine == SelectSeq(es, LAMBDA e : e.type = t)
            IN m.groupedEntities[t] \o [i \in 1..Len(mine) |-> mine[i].id]],
     nextId |-> m.nextId + Len(es)]

\* Manager::create<T>
ManagerCreate(m, e) == ManagerCreateAll(m, <<e>>)

\* position in entities of the object with address id
IndexOf(m, id) == CHOOSE i \in 1..Len(m.entities) : m.entities[i].id = id

Deref(m, id) == m.entities[IndexOf(m, id)]

\* Manager::refresh erasing from entities only: the groups keep the addresses
ManagerRefreshEntitiesOnly(m) ==
    [m EXCEPT !.entities = SelectSeq(m.entities, LAMBDA e : ~e.destroyed)]

\* Manager::refresh erasing from the groups only: entities keeps the objects
ManagerRefreshGroupsOnly(m) ==
    [m EXCEPT !.groupedEntities =
        [t \in Types |->
            SelectSeq(m.groupedEntities[t], LAMBDA id : ~Deref(m, id).destroyed)]]

\* Manager::refresh: remove_if + erase on every group, then on entities; the
\* elements that are not destroyed keep their relative order.
ManagerRefresh(m) ==
    [entities |-> SelectSeq(m.entities, LAMBDA e : ~e.destroyed),
     groupedEntities |->
        [t \in Types |->
            SelectSeq(m.groupedEntities[t], LAMBDA id : ~Deref(m, id).destroyed)],
     nextId |-> m.nextId]

\* Manager::clear without groupedEntities.clear(): the groups keep the addresses
ManagerClearEntitiesOnly(m) == [m EXCEPT !.entities = <<>>]

\* Manager::clear
ManagerClear(m) == EmptyManager

\* Manager::getAll<T>
getAll(m, t) == m.groupedEntities[t]

\* the object at address id replaced by e (a write through a reference)
Store(m, e) == [m EXCEPT !.entities[IndexOf(m, e.id)] = e]

(***************************************************************************)
(* Entity::update of the three variants.                                   *)
(***************************************************************************)
\* Ball::solveBoundCollisions written as one if / else-if chain over the four walls
solveBoundCollisionsOneChain(b) ==
    IF left(b) < 0 THEN [b EXCEPT !.vx = BallDefVelocity]
    ELSE IF right(b) > wndWidth THEN [b EXCEPT !.vx = -BallDefVelocity]
    ELSE IF top(b) < 0 THEN [b EXCEPT !.vy = BallDefVelocity]
    ELSE IF bottom(b) > wndHeight THEN [b EXCEPT !.destroyed = TRUE]
    ELSE b

\* Ball::solveBoundCollisions
solveBoundCollisions(b) ==
    LET b1 == IF left(b) < 0 THEN [b EXCEPT !.vx = BallDefVelocity]
              ELSE IF right(b) > wndWidth THEN [b EXCEPT !.vx = -BallDefVelocity]
              ELSE b
    IN IF top(b1) < 0 THEN [b1 EXCEPT !.vy = BallDefVelocity]
       ELSE IF bottom(b1) > wndHeight THEN [b1 EXCEPT !.destroyed = TRUE]
       ELSE b1

\* Ball::update: shape.move(velocity); solveBoundCollisions()
BallUpdate(b) == solveBoundCollisions([b EXCEPT !.x = @ + b.vx, !.y = @ + b.vy])

\* Paddle::processPlayerInput with the right key tested first
processPlayerInputRightFirst(p, keyLeft, keyRight) ==
    IF keyRight /\ right(p) < wndWidth THEN [p EXCEPT !.vx = PaddleDefVelocity]
    ELSE IF keyLeft /\ left(p) > 0 THEN [p EXCEPT !.vx = -PaddleDefVelocity]
    ELSE [p EXCEPT !.vx = 0]

\* Paddle::processPlayerInput
processPlayerInput(p, keyLeft, keyRight) ==
    IF keyLeft /\ left(p) > 0 THEN [p EXCEPT !.vx = -PaddleDefVelocity]
    ELSE IF keyRight /\ right(p) < wndWidth THEN [p EXCEPT !.vx = PaddleDefVelocity]
    ELSE [p EXCEPT !.vx = 0]

\* Paddle::update: processPlayerInput(); shape.move(velocity)
PaddleUpdate(p, keyLeft, keyRight) ==
    LET q == processPlayerInput(p, keyLeft, keyRight)
    IN [q EXCEPT !.x = @ + q.vx, !.y = @ + q.vy]

\* Brick::update only recomputes the fill colour from requiredHits
BrickColor(b) == IF b.requiredHits = 1 THEN "defColorHits1"
                 ELSE IF b.requiredHits = 2 THEN "defColorHits2"
                 ELSE "defColorHits3"

BrickUpdate(b) == b

EntityUpdate(e, keyLeft, keyRight) ==
    CASE e.type = "Ball" -> BallUpdate(e)
      [] e.type = "Paddle" -> PaddleUpdate(e, keyLeft, keyRight)
      [] e.type = "Brick" -> BrickUpdate(e)

\* Manager::update
ManagerUpdate(m, keyLeft, keyRight) ==
    [m EXCEPT !.entities =
        [i \in 1..Len(m.entities) |-> EntityUpdate(m.entities[i], keyLeft, keyRight)]]

(***************************************************************************)
(* Collision resolution.                                                   *)
(***************************************************************************)
\* solvePaddleBallCollision with <= in place of <: a ball at the paddle's
\* centre is sent left
solvePaddleBallCollisionTieLeft(mPaddle, mBall) ==
    IF ~isIntersecting(mPaddle, mBall) THEN mBall
    ELSE [mBall EXCEPT !.vy = -BallDefVelocity,
                       !.vx = IF mBall.x <= mPaddle.x THEN -BallDefVelocity
                              ELSE BallDefVelocity]

\* solvePaddleBallCollision: the ball after the call
solvePaddleBallCollision(mPaddle, mBall) ==
    IF ~isIntersecting(mPaddle, mBall) THEN mBall
    ELSE [mBall EXCEPT !.vy = -BallDefVelocity,
                       !.vx = IF mBall.x < mPaddle.x THEN -BallDefVelocity
                              ELSE BallDefVelocity]

\* solveBrickBallCollision destroying the brick on the first hit, whatever
\* requiredHits is
solveBrickBallCollisionOneHit(mBrick, mBall) ==
    IF ~isIntersecting(mBrick, mBall) THEN [brick |-> mBrick, ball |-> mBall]
    ELSE
    LET hits == mBrick.requiredHits - 1
        brick == [mBrick EXCEPT !.requiredHits = hits,
                                !.destroyed = TRUE]
        overlapLeft == right(mBall) - left(mBrick)
        overlapRight == right(mBrick) - left(mBall)
        overlapTop == bottom(mBall) - top(mBrick)
        overlapBottom == bottom(mBrick) - top(mBall)
        ballFromLeft == Abs(overlapLeft) < Abs(overlapRight)
        ballFromTop == Abs(overlapTop) < Abs(overlapBottom)
        minOverlapX == IF ballFromLeft THEN overlapLeft ELSE overlapRight
        minOverlapY == IF ballFromTop THEN overlapTop ELSE overlapBottom
        ball == IF Abs(minOverlapX) < Abs(minOverlapY)
                THEN [mBall EXCEPT !.vx = IF ballFromLeft THEN -BallDefVelocity
                                          ELSE BallDefVelocity]
                ELSE [mBall EXCEPT !.vy = IF ballFromTop THEN -BallDefVelocity
                                          ELSE BallDefVelocity]
    IN [brick |-> brick, ball |-> ball]

\* solveBrickBallCollision negating the chosen component instead of setting it
solveBrickBallCollisionNegate(mBrick, mBall) ==
    IF ~isIntersecting(mBrick, mBall) THEN [brick |-> mBrick, ball |-> mBall]
    ELSE
    LET hits == mBrick.requiredHits - 1
        brick == [mBrick EXCEPT !.requiredHits = hits,
                                !.destroyed = IF hits <= 0 THEN TRUE ELSE @]
        overlapLeft == right(mBall) - left(mBrick)
        overlapRight == right(mBrick) - left(mBall)
        overlapTop == bottom(mBall) - top(mBrick)
        overlapBottom == bottom(mBrick) - top(mBall)
        ballFromLeft == Abs(overlapLeft) < Abs(overlapRight)
        ballFromTop == Abs(overlapTop) < Abs(overlapBottom)
        minOverlapX == IF ballFromLeft THEN overlapLeft ELSE overlapRight
        minOverlapY == IF ballFromTop THEN overlapTop ELSE overlapBottom
        ball == IF Abs(minOverlapX) < Abs(minOverlapY)
                THEN [mBall EXCEPT !.vx = -mBall.vx]
                ELSE [mBall EXCEPT !.vy = -mBall.vy]
    IN [brick |-> brick, ball |-> ball]

\* solveBrickBallCollision returning early on a brick that is already destroyed
solveBrickBallCollisionSkipDestroyed(mBrick, mBall) ==
    IF ~isIntersecting(mBrick, mBall) \/ mBrick.destroyed
    THEN [brick |-> mBrick, ball |-> mBall]
    ELSE
    LET hits == mBrick.requiredHits - 1
        brick == [mBrick EXCEPT !.requiredHits = hits,
                                !.destroyed = IF hits <= 0 THEN TRUE ELSE @]
        overlapLeft == right(mBall) - left(mBrick)
        overlapRight == right(mBrick) - left(mBall)
        overlapTop == bottom(mBall) - top(mBrick)
        overlapBottom == bottom(mBrick) - top(mBall)
        ballFromLeft == Abs(overlapLeft) < Abs(overlapRight)
        ballFromTop == Abs(overlapTop) < Abs(overlapBottom)
        minOverlapX == IF ballFromLeft THEN overlapLeft ELSE overlapRight
        minOverlapY == IF ballFromTop THEN overlapTop ELSE overlapBottom
        ball == IF Abs(minOverlapX) < Abs(minOverlapY)
                THEN [mBall EXCEPT !.vx = IF ballFromLeft THEN -BallDefVelocity
                                          ELSE BallDefVelocity]
                ELSE [mBall EXCEPT !.vy = IF ballFromTop THEN -BallDefVelocity
                                          ELSE BallDefVelocity]
    IN [brick |-> brick, ball |-> ball]

\* solveBrickBallCollision: the brick and the ball after the call
solveBrickBallCollision(mBrick, mBall) ==
    IF ~isIntersecting(mBrick, mBall) THEN [brick |-> mBrick, ball |-> mBall]
    ELSE
    LET hits == mBrick.requiredHits - 1
        brick == [mBrick EXCEPT !.requiredHits = hits,
                                !.destroyed = IF hits <= 0 THEN TRUE ELSE @]
        overlapLeft == right(mBall) - left(mBrick)
        overlapRight == right(mBrick) - left(mBall)
        overlapTop == bottom(mBall) - top(mBrick)
        overlapBottom == bottom(mBrick) - top(mBall)
        ballFromLeft == Abs(overlapLeft) < Abs(overlapRight)
        ballFromTop == Abs(overlapTop) < Abs(overlapBottom)
        minOverlapX == IF ballFromLeft THEN overlapLeft ELSE overlapRight
        minOverlapY == IF ballFromTop THEN overlapTop ELSE overlapBottom
        ball == IF Abs(minOverlapX) < Abs(minOverlapY)
                THEN [mBall EXCEPT !.vx = IF ballFromLeft THEN -BallDefVelocity
                                          ELSE BallDefVelocity]
                ELSE [mBall EXCEPT !.vy = IF ballFromTop THEN -BallDefVelocity
                                          ELSE BallDefVelocity]
    IN [brick |-> brick, ball |-> ball]

\* manager.forEach<Brick>(solveBrickBallCollision(mBrick, mBall)) for one ball,
\* over positions lo..hi of the brick group.  The range is split in two only to
\* keep the evaluation shallow: the calls happen in the order of the group.
RECURSIVE ForEachBrick(_, _, _, _)
ForEachBrick(m, lo, hi, ballId) ==
    IF lo > hi \/ hi > Len(getAll(m, "Brick")) THEN m
    ELSE IF lo = hi
    THEN LET mBrick == Deref(m, getAll(m, "Brick")[lo])
             mBall == Deref(m, ballId)
             r == solveBrickBallCollision(mBrick, mBall)
         IN IF r.brick = mBrick /\ r.ball = mBall THEN m
            ELSE Store(Store(m, r.brick), r.ball)
    ELSE LET mid == (lo + hi) \div 2
         IN ForEachBrick(ForEachBrick(m, lo, mid, ballId), mid + 1, hi, ballId)

\* manager.forEach<Paddle>(solvePaddleBallCollision(mPaddle, mBall)) for one ball
RECURSIVE ForEachPaddle(_, _, _)
ForEachPaddle(m, ids, ballId) ==
    IF ids = <<>> THEN m
    ELSE ForEachPaddle(
            Store(m, solvePaddleBallCollision(Deref(m, Head(ids)), Deref(m, ballId))),
            Tail(ids), ballId)

\* the collision pass of Game::run: for every ball, all bricks, then all paddles
RECURSIVE ForEachBall(_, _)
ForEachBall(m, ids) ==
    IF ids = <<>> THEN m
    ELSE LET m1 == ForEachBrick(m, 1, Len(getAll(m, "Brick")), Head(ids))
             m2 == ForEachPaddle(m1, getAll(m1, "Paddle"), Head(ids))
         IN ForEachBall(m2, Tail(ids))

SolveCollisions(m) == ForEachBall(m, getAll(m, "Ball"))


(***************************************************************************)
(* Game.                                                                   *)
(***************************************************************************)
NoKeys == [P |-> FALSE, R |-> FALSE, Left |-> FALSE, Right |-> FALSE]

\* the brick of a grid cell with the sum of the indices in place of the product
SeedBrickSum(id, iX, iY) ==
    [NewBrick(id,
              brkOffsetX + (iX + brkStartColumn) * (BrickDefWidth + brkSpacing),
              (iY + brkStartRow) * (BrickDefHeight + brkSpacing))
        EXCEPT !.requiredHits = 1 + ((iX + iY) % 3)]

\* the brick of grid cell (iX, iY) as Game::restart creates it
SeedBrick(id, iX, iY) ==
    [NewBrick(id,
              brkOffsetX + (iX + brkStartColumn) * (BrickDefWidth + brkSpacing),
              (iY + brkStartRow) * (BrickDefHeight + brkSpacing))
        EXCEPT !.requiredHits = 1 + ((iX * iY) % 3)]

\* the bricks the nested for loops of Game::restart create, in creation order
\* (iY is the inner loop): the k-th brick is the one of cell
\* (k \div brkCountY, k % brkCountY), k counted from 0
SeedBricks(firstId) ==
    [n \in 1..(brkCountX * brkCountY) |->
        SeedBrick(firstId + n - 1, (n - 1) \div brkCountY, (n - 1) % brkCountY)]

\* Game::restart without manager.clear(): the old entities stay
RestartManagerNoClear(m) ==
    LET m1 == ManagerCreateAll(m, SeedBricks(m.nextId))
        m2 == ManagerCreate(m1, NewBall(m1.nextId, wndWidth \div 2, wndHeight \div 2))
    IN ManagerCreate(m2, NewPaddle(m2.nextId, wndWidth \div 2,
                                   wndHeight - PaddleStartOffsetY))

\* the registry as Game::restart leaves it
RestartManager(m) ==
    LET m0 == ManagerClear(m)
        m1 == ManagerCreateAll(m0, SeedBricks(m0.nextId))
        m2 == ManagerCreate(m1, NewBall(m1.nextId, wndWidth \div 2, wndHeight \div 2))
    IN ManagerCreate(m2, NewPaddle(m2.nextId, wndWidth \div 2,
                                   wndHeight - PaddleStartOffsetY))

\* Game::restart, as an assignment to the primed game fields
restart ==
    /\ remainingLives' = StartLives
    /\ state' = "Paused"
    /\ manager' = RestartManager(manager)
    /\ ticks' = 0

\* the pause-key block without the pausePressedLastFrame test: toggles on hold
PauseToggleOnHold(st, keyP, pressedLast) ==
    IF keyP
    THEN IF st = "Paused" THEN "InProgress"
         ELSE IF st = "InProgress" THEN "Paused"
         ELSE st
    ELSE st

\* the pause-key block resuming the game from any state that is not InProgress
PauseToggleAnyState(st, keyP, pressedLast) ==
    IF keyP /\ ~pressedLast
    THEN IF st = "InProgress" THEN "Paused" ELSE "InProgress"
    ELSE st

\* the pause-key block of Game::run: the state after it
PauseToggle(st, keyP, pressedLast) ==
    IF keyP /\ ~pressedLast
    THEN IF st = "Paused" THEN "InProgress"
         ELSE IF st = "InProgress" THEN "Paused"
         ELSE st
    ELSE st

\* main(): Game game; game.restart(); then game.run()
MainRestart ==
    /\ pc = "main"
    /\ restart
    /\ pc' = "loop"
    /\ UNCHANGED <<pausePressedLastFrame, keys, drawn, shapes>>

\* Game::run, top of the loop with the escape key down: break
Escape ==
    /\ pc = "loop"
    /\ pc' = "exited"
    /\ manager' = EmptyManager     \* main returns: the Game and its entities are destroyed
    /\ drawn' = <<>>
    /\ UNCHANGED <<state, pausePressedLastFrame, remainingLives, keys, ticks, shapes>>

\* Game::run, window.clear and the pause and restart keys of one frame
HandleKeys(keyP, keyR) ==
    /\ pc = "loop"
    /\ keys' = [NoKeys EXCEPT !.P = keyP, !.R = keyR]
    /\ drawn' = <<>>
    /\ pausePressedLastFrame' = keyP
    /\ IF keyR
       THEN restart
       ELSE /\ state' = PauseToggle(state, keyP, pausePressedLastFrame)
            /\ UNCHANGED <<remainingLives, manager, ticks>>
    /\ pc' = "branch"
    /\ UNCHANGED shapes

\* Game::run, the branch taken when the game is not in progress: the status
\* text is drawn and window.display() ends the frame
ShowText ==
    /\ pc = "branch"
    /\ state # "InProgress"
    /\ pc' = "loop"
    /\ keys' = NoKeys
    /\ UNCHANGED <<state, pausePressedLastFrame, remainingLives, manager, drawn, ticks, shapes>>

\* the same step without the remainingLives <= 0 test
SimulateNoGameOver(limit) ==
    /\ pc = "branch"
    /\ state = "InProgress"
    /\ ticks < limit
    /\ ticks' = ticks + 1
    /\ LET spawn == getAll(manager, "Ball") = <<>>
           m1 == IF spawn
                 THEN ManagerCreate(manager,
                        NewBall(manager.nextId, wndWidth \div 2, wndHeight \div 2))
                 ELSE manager
           lives == IF spawn THEN remainingLives - 1 ELSE remainingLives
           s1 == IF getAll(m1, "Brick") = <<>> THEN "Victory" ELSE state
           s2 == s1
       IN /\ manager' = m1
          /\ remainingLives' = lives
          /\ state' = s2
    /\ pc' = "update"
    /\ UNCHANGED <<pausePressedLastFrame, keys, drawn, shapes>>

\* the same step with a respawn that costs no life
SimulateKeepsLives(limit) ==
    /\ pc = "branch"
    /\ state = "InProgress"
    /\ ticks < limit
    /\ ticks' = ticks + 1
    /\ LET spawn == getAll(manager, "Ball") = <<>>
           m1 == IF spawn
                 THEN ManagerCreate(manager,
                        NewBall(manager.nextId, wndWidth \div 2, wndHeight \div 2))
                 ELSE manager
           lives == remainingLives
           s1 == IF getAll(m1, "Brick") = <<>> THEN "Victory" ELSE state
           s2 == IF lives <= 0 THEN "GameOver" ELSE s1
       IN /\ manager' = m1
          /\ remainingLives' = lives
          /\ state' = s2
    /\ pc' = "update"
    /\ UNCHANGED <<pausePressedLastFrame, keys, drawn, shapes>>

\* the same step with the two tests exchanged: lives first, bricks last
SimulateLivesFirst(limit) ==
    /\ pc = "branch"
    /\ state = "InProgress"
    /\ ticks < limit
    /\ ticks' = ticks + 1
    /\ LET spawn == getAll(manager, "Ball") = <<>>
           m1 == IF spawn
                 THEN ManagerCreate(manager,
                        NewBall(manager.nextId, wndWidth \div 2, wndHeight \div 2))
                 ELSE manager
           lives == IF spawn THEN remainingLives - 1 ELSE remainingLives
           s1 == IF lives <= 0 THEN "GameOver" ELSE state
           s2 == IF getAll(m1, "Brick") = <<>> THEN "Victory" ELSE s1
       IN /\ manager' = m1
          /\ remainingLives' = lives
          /\ state' = s2
    /\ pc' = "update"
    /\ UNCHANGED <<pausePressedLastFrame, keys, drawn, shapes>>

\* the same step creating a ball in every frame, the group empty or not
SimulateAlwaysSpawn(limit) ==
    /\ pc = "branch"
    /\ state = "InProgress"
    /\ ticks < limit
    /\ ticks' = ticks + 1
    /\ LET spawn == TRUE
           m1 == IF spawn
                 THEN ManagerCreate(manager,
                        NewBall(manager.nextId, wndWidth \div 2, wndHeight \div 2))
                 ELSE manager
           lives == IF spawn THEN remainingLives - 1 ELSE remainingLives
           s1 == IF getAll(m1, "Brick") = <<>> THEN "Victory" ELSE state
           s2 == IF lives <= 0 THEN "GameOver" ELSE s1
       IN /\ manager' = m1
          /\ remainingLives' = lives
          /\ state' = s2
    /\ pc' = "update"
    /\ UNCHANGED <<pausePressedLastFrame, keys, drawn, shapes>>

\* Game::run, in progress: ball respawn, victory and game-over tests
Simulate(limit) ==
    /\ pc = "branch"
    /\ state = "InProgress"
    /\ ticks < limit
    /\ ticks' = ticks + 1
    /\ LET spawn == getAll(manager, "Ball") = <<>>
           m1 == IF spawn
                 THEN ManagerCreate(manager,
                        NewBall(manager.nextId, wndWidth \div 2, wndHeight \div 2))
                 ELSE manager
           lives == IF spawn THEN remainingLives - 1 ELSE remainingLives
           s1 == IF getAll(m1, "Brick") = <<>> THEN "Victory" ELSE state
           s2 == IF lives <= 0 THEN "GameOver" ELSE s1
       IN /\ manager' = m1
          /\ remainingLives' = lives
          /\ state' = s2
    /\ pc' = "update"
    /\ UNCHANGED <<pausePressedLastFrame, keys, drawn, shapes>>

\* Game::run, manager.update(); the paddle samples the arrow keys
Update(keyLeft, keyRight) ==
    /\ pc = "update"
    /\ keys' = [keys EXCEPT !.Left = keyLeft, !.Right = keyRight]
    /\ manager' = ManagerUpdate(manager, keyLeft, keyRight)
    /\ pc' = "collide"
    /\ UNCHANGED <<state, pausePressedLastFrame, remainingLives, drawn, ticks, shapes>>

\* Game::run, the nested forEach of the collision pass
Collide ==
    /\ pc = "collide"
    /\ manager' = SolveCollisions(manager)
    /\ pc' = "refresh"
    /\ UNCHANGED <<state, pausePressedLastFrame, remainingLives, keys, drawn, ticks, shapes>>

\* Game::run, manager.refresh()
Refresh ==
    /\ pc = "refresh"
    /\ manager' = ManagerRefresh(manager)
    /\ pc' = "draw"
    /\ UNCHANGED <<state, pausePressedLastFrame, remainingLives, keys, drawn, ticks, shapes>>

\* Manager::draw: every entity of the owning vector, in order
ManagerDraw(m) == [i \in 1..Len(m.entities) |-> m.entities[i].id]

\* Game::run, manager.draw(window), the lives text and window.display(): the
\* frame is over
Draw ==
    /\ pc = "draw"
    /\ drawn' = ManagerDraw(manager)
    /\ pc' = "loop"
    /\ keys' = NoKeys
    /\ UNCHANGED <<state, pausePressedLastFrame, remainingLives, manager, ticks, shapes>>

\* the fields of a Game after its constructor
Init ==
    /\ pc = "main"
    /\ state = "GameOver"
    /\ pausePressedLastFrame = FALSE
    /\ remainingLives = 0
    /\ manager = EmptyManager
    /\ keys = NoKeys
    /\ drawn = <<>>
    /\ ticks = 0
    /\ shapes = <<>>

Next ==
    \/ MainRestart
    \/ Escape
    \/ \E keyP \in BOOLEAN, keyR \in BOOLEAN : HandleKeys(keyP, keyR)
    \/ ShowText
    \/ Simulate(MaxTicks)
    \/ \E keyLeft \in BOOLEAN, keyRight \in BOOLEAN : Update(keyLeft, keyRight)
    \/ Collide
    \/ Refresh
    \/ Draw

Spec == Init /\ [][Next]_vars

\* the same program with the arrow keys never pressed
NextIdle ==
    \/ MainRestart
    \/ Escape
    \/ \E keyP \in BOOLEAN, keyR \in BOOLEAN : HandleKeys(keyP, keyR)
    \/ ShowText
    \/ Simulate(MaxIdleTicks)
    \/ Update(FALSE, FALSE)
    \/ Collide
    \/ Refresh
    \/ Draw

SpecIdle == Init /\ [][NextIdle]_vars

(***************************************************************************)
(* The Manager on its own: any sequence of create, destroyed-flag          *)
(* settings, refresh and clear.  pc names the call made last.              *)
(***************************************************************************)
MaxCreates == 4       \* objects created since the last clear

\* the object create<T> makes for a type, at the place Game::run spawns a ball
NewEntity(id, t) ==
    CASE t = "Ball" -> NewBall(id, wndWidth \div 2, wndHeight \div 2)
      [] t = "Paddle" -> NewPaddle(id, wndWidth \div 2, wndHeight - PaddleStartOffsetY)
      [] t = "Brick" -> SeedBrick(id, 0, 0)

\* entity.destroyed = true through a reference to the object
SetDestroyed(m, id) == Store(m, [Deref(m, id) EXCEPT !.destroyed = TRUE])

MgrCreate(t) ==
    /\ pc \in {"manager", "created", "flagged", "refreshed", "cleared"}
    /\ manager.nextId <= MaxCreates
    /\ manager' = ManagerCreate(manager, NewEntity(manager.nextId, t))
    /\ pc' = "created"
    /\ UNCHANGED <<state, pausePressedLastFrame, remainingLives, keys, drawn, ticks, shapes>>

MgrDestroy(i) ==
    /\ pc \in {"manager", "created", "flagged", "refreshed", "cleared"}
    /\ i \in 1..Len(manager.entities)
    /\ ~manager.entities[i].destroyed
    /\ manager' = SetDestroyed(manager, manager.entities[i].id)
    /\ pc' = "flagged"
    /\ UNCHANGED <<state, pausePressedLastFrame, remainingLives, keys, drawn, ticks, shapes>>

MgrRefresh ==
    /\ pc \in {"manager", "created", "flagged", "refreshed", "cleared"}
    /\ manager' = ManagerRefresh(manager)
    /\ pc' = "refreshed"
    /\ UNCHANGED <<state, pausePressedLastFrame, remainingLives, keys, drawn, ticks, shapes>>

MgrClear ==
    /\ pc \in {"manager", "created", "flagged", "refreshed", "cleared"}
    /\ manager' = ManagerClear(manager)
    /\ pc' = "cleared"
    /\ UNCHANGED <<state, pausePressedLastFrame, remainingLives, keys, drawn, ticks, shapes>>

InitManager ==
    /\ pc = "manager"
    /\ state = "GameOver"
    /\ pausePressedLastFrame = FALSE
    /\ remainingLives = 0
    /\ manager = EmptyManager
    /\ keys = NoKeys
    /\ drawn = <<>>
    /\ ticks = 0
    /\ shapes = <<>>

NextManager ==
    \/ \E t \in Types : MgrCreate(t)
    \/ \E i \in 1..MaxCreates : MgrDestroy(i)
    \/ MgrRefresh
    \/ MgrClear

SpecManager == InitManager /\ [][NextManager]_vars

(***************************************************************************)
(* Ball::update on its own.  The ball of the game starts at the window     *)
(* centre and moves by 8 on each axis per update, so its positions lie on  *)
(* a lattice; a ball that is still alive has its bottom edge inside.  The  *)
(* side walls do not stop the ball where the paddle is: a paddle hit       *)
(* sends a ball that is left of the paddle's centre to the left also when  *)
(* the ball is at the left wall, and the following updates then move it    *)
(* past the wall, up to BallBeyondWall (mirrored at the right wall).       *)
(***************************************************************************)
BallBeyondWall == 16

BallXs == {x \in -BallBeyondWall..(wndWidth + BallBeyondWall) :
                (x - wndWidth \div 2) % BallDefVelocity = 0}
BallYs == {y \in 0..(wndHeight - BallDefRadius) :
                (y - wndHeight \div 2) % BallDefVelocity = 0}
BallVs == {-BallDefVelocity, BallDefVelocity}

BallAt(id, x, y, vx, vy) == [NewBall(id, x, y) EXCEPT !.vx = vx, !.vy = vy]

\* position and velocity of a ball when manager.update() is called: a ball
\* whose centre is past a side wall has just been hit by the paddle, so it
\* moves up, and at the farthest place it moves back towards the window
BallBeforeUpdate(x, y, vx, vy) ==
    /\ (x < 0 \/ x > wndWidth) => vy = -BallDefVelocity
    /\ (x <= -BallBeyondWall) => vx = BallDefVelocity
    /\ (x >= wndWidth + BallBeyondWall) => vx = -BallDefVelocity

InitBall ==
    /\ pc = "ball"
    /\ state = "InProgress"
    /\ pausePressedLastFrame = FALSE
    /\ remainingLives = StartLives
    /\ \E x \in BallXs, y \in BallYs, vx \in BallVs, vy \in BallVs :
          /\ BallBeforeUpdate(x, y, vx, vy)
          /\ manager = ManagerCreate(EmptyManager, BallAt(1, x, y, vx, vy))
    /\ keys = NoKeys
    /\ drawn = <<>>
    /\ ticks = 0
    /\ shapes = <<>>

\* manager.update() with the ball alone in the registry
BallStep ==
    /\ pc = "ball"
    /\ manager' = ManagerUpdate(manager, FALSE, FALSE)
    /\ pc' = "ball_updated"
    /\ UNCHANGED <<state, pausePressedLastFrame, remainingLives, keys, drawn, ticks, shapes>>

SpecBall == InitBall /\ [][BallStep]_vars

(***************************************************************************)
(* solveBrickBallCollision on its own: one brick of the grid, hit any      *)
(* number of times so far, and a ball on its lattice within NearBrick of   *)
(* the brick's centre on each axis, with any velocity.                     *)
(***************************************************************************)
NearBrick == 48

InitBrickBall ==
    /\ pc = "brickball"
    /\ state = "InProgress"
    /\ pausePressedLastFrame = FALSE
    /\ remainingLives = StartLives
    /\ \E iX \in 0..(brkCountX - 1), iY \in 0..(brkCountY - 1) :
          \E h \in 1..SeedBrick(1, iX, iY).requiredHits :
             LET brick == [SeedBrick(1, iX, iY) EXCEPT !.requiredHits = h]
             IN \E x \in {bx \in BallXs : Abs(bx - brick.x) <= NearBrick},
                   y \in {by \in BallYs : Abs(by - brick.y) <= NearBrick},
                   vx \in BallVs, vy \in BallVs :
                   manager = ManagerCreate(ManagerCreate(EmptyManager, brick),
                                           BallAt(2, x, y, vx, vy))
    /\ keys = NoKeys
    /\ drawn = <<>>
    /\ ticks = 0
    /\ shapes = <<>>

\* the collision pass of Game::run on that registry
BrickBallStep ==
    /\ pc = "brickball"
    /\ manager' = SolveCollisions(manager)
    /\ pc' = "brickball_solved"
    /\ UNCHANGED <<state, pausePressedLastFrame, remainingLives, keys, drawn, ticks, shapes>>

SpecBrickBall == InitBrickBall /\ [][BrickBallStep]_vars

(***************************************************************************)
(* solvePaddleBallCollision on its own, on the registry manager.update()   *)
(* leaves behind: before the update the paddle is at any place its update  *)
(* can take it to (steps of 8 from the window centre, until a wall gates   *)
(* the move off) and the ball is on its lattice within NearPaddle of the   *)
(* paddle's centre on each axis; the update runs with any arrow keys, so   *)
(* the paddle has velocity -8, 0 or 8 and a ball that left through the     *)
(* bottom is there with its destroyed flag set.                            *)
(***************************************************************************)
NearPaddle == 56

PaddleXs ==
    {x \in -PaddleDefVelocity..(wndWidth + PaddleDefVelocity) :
        /\ (x - wndWidth \div 2) % PaddleDefVelocity = 0
        /\ x - PaddleDefWidth \div 2 > -PaddleDefVelocity
        /\ x + PaddleDefWidth \div 2 < wndWidth + PaddleDefVelocity}

InitPaddleBall ==
    /\ pc = "paddleball"
    /\ state = "InProgress"
    /\ pausePressedLastFrame = FALSE
    /\ remainingLives = StartLives
    /\ \E px \in PaddleXs, keyLeft \in BOOLEAN, keyRight \in BOOLEAN :
          LET paddle == NewPaddle(1, px, wndHeight - PaddleStartOffsetY)
          IN \E x \in {bx \in BallXs : Abs(bx - paddle.x) <= NearPaddle},
                y \in {by \in BallYs : Abs(by - paddle.y) <= NearPaddle},
                vx \in BallVs, vy \in BallVs :
                /\ BallBeforeUpdate(x, y, vx, vy)
                /\ manager = ManagerUpdate(
                                ManagerCreate(ManagerCreate(EmptyManager, paddle),
                                              BallAt(2, x, y, vx, vy)),
                                keyLeft, keyRight)
    /\ keys = NoKeys
    /\ drawn = <<>>
    /\ ticks = 0
    /\ shapes = <<>>

\* the collision pass of Game::run on that registry
PaddleBallStep ==
    /\ pc = "paddleball"
    /\ manager' = SolveCollisions(manager)
    /\ pc' = "paddleball_solved"
    /\ UNCHANGED <<state, pausePressedLastFrame, remainingLives, keys, drawn, ticks, shapes>>

SpecPaddleBall == InitPaddleBall /\ [][PaddleBallStep]_vars

(***************************************************************************)
(* isIntersecting on its own: two shapes, each a Rectangle or a Circle,    *)
(* with integer centres in 0..MaxCoord on both axes and half extents in    *)
(* 0..MaxHalfExtent (a Rectangle's width and height are twice its half     *)
(* extents, so that width / 2.f is the integer the model computes).        *)
(***************************************************************************)
MaxCoord == 3
MaxHalfExtent == 2

Rectangles ==
    {[type |-> "Rectangle", x |-> x, y |-> y, width |-> 2 * hw, height |-> 2 * hh] :
        x \in 0..MaxCoord, y \in 0..MaxCoord,
        hw \in 0..MaxHalfExtent, hh \in 0..MaxHalfExtent}

Circles ==
    {[type |-> "Circle", x |-> x, y |-> y, radius |-> r] :
        x \in 0..MaxCoord, y \in 0..MaxCoord, r \in 0..MaxHalfExtent}

InitShapes ==
    /\ pc = "shapes"
    /\ state = "GameOver"
    /\ pausePressedLastFrame = FALSE
    /\ remainingLives = 0
    /\ manager = EmptyManager
    /\ keys = NoKeys
    /\ drawn = <<>>
    /\ ticks = 0
    /\ \E mA \in Rectangles \cup Circles, mB \in Rectangles \cup Circles :
          shapes = <<mA, mB>>

\* isIntersecting(mA, mB) and isIntersecting(mB, mA), the two results appended
IntersectStep ==
    /\ pc = "shapes"
    /\ shapes' = shapes \o <<isIntersecting(shapes[1], shapes[2]),
                              isIntersecting(shapes[2], shapes[1])>>
    /\ pc' = "intersected"
    /\ UNCHANGED <<state, pausePressedLastFrame, remainingLives, manager, keys, drawn, ticks>>

SpecShapes == InitShapes /\ [][IntersectStep]_vars

(***************************************************************************)
(* The body of one simulated frame (update, collision pass, refresh, draw) *)
(* on a registry the Manager can hold but the game never builds: a brick   *)
(* of the grid with 1 or 2 hits left and two balls.  The first ball is on  *)
(* the lattice within NearTwoBalls of the brick's centre on each axis; the *)
(* second ball is either there too or on the lowest row of the lattice     *)
(* that is still inside the window, about to leave it.                     *)
(***************************************************************************)
NearTwoBalls == 16

InitFrame ==
    /\ pc = "update"
    /\ state = "InProgress"
    /\ pausePressedLastFrame = FALSE
    /\ remainingLives = StartLives
    /\ \E h \in 1..SeedBrick(1, 1, 1).requiredHits :
          LET brick == [SeedBrick(1, 1, 1) EXCEPT !.requiredHits = h]
              xs == {bx \in BallXs : Abs(bx - brick.x) <= NearTwoBalls}
              ys == {by \in BallYs : Abs(by - brick.y) <= NearTwoBalls}
              low == {by \in BallYs : by + BallDefVelocity + BallDefRadius > wndHeight}
          IN \E x1 \in xs, y1 \in ys, x2 \in xs, y2 \in ys \cup low,
                vx1 \in BallVs, vy1 \in BallVs, vx2 \in BallVs, vy2 \in BallVs :
                manager = ManagerCreateAll(EmptyManager,
                             <<brick, BallAt(2, x1, y1, vx1, vy1),
                               BallAt(3, x2, y2, vx2, vy2)>>)
    /\ keys = NoKeys
    /\ drawn = <<>>
    /\ ticks = 0
    /\ shapes = <<>>

\* Game::run lines 420-436 on that registry
NextFrame ==
    \/ Update(FALSE, FALSE)
    \/ Collide
    \/ Refresh
    \/ Draw

SpecFrame == InitFrame /\ [][NextFrame]_vars

(***************************************************************************)
(* The end of a game.  Clearing the 44 bricks takes more frames than the   *)
(* bounds above let a game run, so this specification starts the frame     *)
(* loop late in a game: in progress, with 1 to 3 lives, at most            *)
(* MaxBricksLeft bricks left (the last ones created), the ball either in   *)
(* play or already swept, and the paddle where restart put it.  Each game  *)
(* then runs for at most MaxEndTicks simulated frames.                     *)
(***************************************************************************)
MaxEndTicks == 3
MaxBricksLeft == 1

\* the registry of a restarted game after all bricks but the last `keep`, and
\* the ball unless ballAlive, have been destroyed and swept
EndgameManager(keep, ballAlive, vx, vy) ==
    LET m0 == RestartManager(EmptyManager)
        flagged(e, i) ==
            CASE e.type = "Brick" ->
                    IF i <= brkCountX * brkCountY - keep
                    THEN [e EXCEPT !.requiredHits = 0, !.destroyed = TRUE]
                    ELSE e
              [] e.type = "Ball" ->
                    IF ballAlive THEN [e EXCEPT !.vx = vx, !.vy = vy]
                    ELSE [e EXCEPT !.destroyed = TRUE]
              [] e.type = "Paddle" -> e
    IN ManagerRefresh(
          [m0 EXCEPT !.entities =
              [i \in 1..Len(m0.entities) |-> flagged(m0.entities[i], i)]])

InitEndgame ==
    /\ pc = "loop"
    /\ state = "InProgress"
    /\ pausePressedLastFrame \in BOOLEAN
    /\ remainingLives \in 1..StartLives
    /\ \E keep \in 0..MaxBricksLeft, ballAlive \in BOOLEAN,
          vx \in BallVs, vy \in BallVs :
          manager = EndgameManager(keep, ballAlive, vx, vy)
    /\ keys = NoKeys
    /\ drawn = <<>>
    /\ ticks = 0
    /\ shapes = <<>>

NextEndgame ==
    \/ Escape
    \/ \E keyP \in BOOLEAN, keyR \in BOOLEAN : HandleKeys(keyP, keyR)
    \/ ShowText
    \/ Simulate(MaxEndTicks)
    \/ Update(FALSE, FALSE)
    \/ Collide
    \/ Refresh
    \/ Draw

SpecEndgame == InitEndgame /\ [][NextEndgame]_vars

(***************************************************************************)
(* Properties.                                                             *)
(***************************************************************************)
Count(t) == Len(getAll(manager, t))

ThePaddle == Deref(manager, getAll(manager, "Paddle")[1])

FreshGame ==
    /\ Count("Brick") = brkCountX * brkCountY
    /\ Count("Ball") = 1
    /\ Count("Paddle") = 1
    /\ Len(manager.entities) = brkCountX * brkCountY + 2
    /\ remainingLives = 3
    /\ state = "Paused"

\* C1: whenever the restart command runs (the call of main, or a frame with the
\* restart key down, with or without the pause key), the game then has exactly
\* 44 bricks, 1 ball, 1 paddle, 3 lives and is Paused, and the frame of a
\* restart key ends in that same condition.
C1_RestartYieldsFreshGame ==
    [][ /\ (pc = "main" /\ pc' = "loop") => FreshGame'
        /\ (pc' = "branch" /\ keys'.R) => FreshGame'
        /\ (pc = "branch" /\ keys.R) => (pc' = "loop" /\ FreshGame') ]_vars

C1_Witness ==
    /\ pc = "branch" /\ keys.R /\ keys.P
    /\ FreshGame

\* C2: an InProgress frame that starts with one life and no ball ends the game:
\* remainingLives becomes 0 and the state GameOver; from then on, until a
\* restart, no step creates an entity, changes remainingLives or leaves GameOver.
C2_LastLifeEndsGame ==
    [][ /\ (pc = "branch" /\ state = "InProgress" /\ remainingLives = 1
              /\ getAll(manager, "Ball") = <<>>)
           => (remainingLives' = 0 /\ state' = "GameOver")
        /\ (state = "GameOver" /\ pc \notin {"main", "exited"} /\ pc' # "exited"
              /\ ~(pc = "loop" /\ keys'.R))
           => /\ remainingLives' = remainingLives
              /\ state' = "GameOver"
              /\ manager'.nextId = manager.nextId
              /\ Len(getAll(manager', "Ball")) <= Len(getAll(manager, "Ball")) ]_vars

C2_Witness ==
    /\ pc = "loop" /\ state = "GameOver" /\ remainingLives = 0 /\ ticks > 0
    /\ Count("Ball") = 1

\* C3: the entity update and the collision pass only ever run while the state is
\* InProgress.
C3_SimulationOnlyInProgress ==
    pc \in {"update", "collide"} => state = "InProgress"

\* a step that exchanges Paused and InProgress (a restart only ever sets Paused)
C4_Toggled ==
    \/ state = "Paused" /\ state' = "InProgress"
    \/ state = "InProgress" /\ state' = "Paused" /\ ~keys'.R

\* C4: Paused and InProgress are exchanged only by a frame that finds the pause
\* key down while pausePressedLastFrame is false; such a frame does exchange
\* them; and pausePressedLastFrame is exactly the pause key of the frame before,
\* so a held key toggles once and a new toggle needs a frame with the key up.
C4_PauseTogglesOnEdge ==
    [][ /\ C4_Toggled => (pc = "loop" /\ keys'.P /\ ~pausePressedLastFrame)
        /\ (pc = "loop" /\ pc' = "branch" /\ keys'.P /\ ~keys'.R
              /\ ~pausePressedLastFrame /\ state \in {"Paused", "InProgress"})
           => C4_Toggled
        /\ (pc = "loop" /\ pc' = "branch") => pausePressedLastFrame' = keys'.P
        /\ (pc # "loop") => pausePressedLastFrame' = pausePressedLastFrame ]_vars

C4_Witness ==
    /\ pc = "branch" /\ keys.P /\ ~keys.R
    /\ state = "Paused" /\ ticks > 0

\* C5: the paddle never leaves the screen: left edge >= 0, right edge <= 800.
C5_PaddleWithinScreen ==
    \A i \in 1..Len(manager.entities) :
        manager.entities[i].type = "Paddle"
            => /\ left(manager.entities[i]) >= 0
               /\ right(manager.entities[i]) <= wndWidth

\* the ball of a one-ball registry
TheBall == Deref(manager, getAll(manager, "Ball")[1])

\* destroyed exactly when requiredHits <= 0, for every brick of the registry
C6_BrickInv ==
    \A i \in 1..Len(manager.entities) :
        manager.entities[i].type = "Brick"
            => (manager.entities[i].destroyed <=> manager.entities[i].requiredHits <= 0)

\* C6: in every state a brick is destroyed exactly when its requiredHits is <= 0,
\* and a collision pass lowers the requiredHits of each brick the ball
\* intersects by exactly 1 and leaves every other brick's requiredHits alone.
C6_HitsDecreaseByOne ==
    [][ /\ C6_BrickInv'
        /\ (pc = "collide" /\ Count("Ball") = 1)
           => \A i \in 1..Len(manager.entities) :
                manager.entities[i].type = "Brick"
                  => manager'.entities[i].requiredHits =
                        IF isIntersecting(manager.entities[i], TheBall)
                        THEN manager.entities[i].requiredHits - 1
                        ELSE manager.entities[i].requiredHits ]_vars

\* a brick seeded with 2 required hits, destroyed with the counter at 0
C6_Witness ==
    /\ pc = "refresh"
    /\ \E i \in 1..Len(manager.entities) :
          LET e == manager.entities[i]
          IN /\ e.type = "Brick" /\ e.destroyed /\ e.requiredHits = 0
             /\ \E iX \in 0..(brkCountX - 1), iY \in 0..(brkCountY - 1) :
                   /\ SeedBrick(e.id, iX, iY).x = e.x
                   /\ SeedBrick(e.id, iX, iY).y = e.y
                   /\ SeedBrick(e.id, iX, iY).requiredHits = 2

\* helpers: the addresses of a vector of entities, the place of an element, and
\* whether the common elements of two vectors come in the same order
Ids(seq) == {seq[i].id : i \in 1..Len(seq)}
PosOf(seq, x) == CHOOSE i \in 1..Len(seq) : seq[i] = x
IdSeq(seq) == [i \in 1..Len(seq) |-> seq[i].id]
SameOrder(old, new) ==
    \A i \in 1..Len(old), j \in 1..Len(old) :
        (i < j /\ old[i] \in {new[k] : k \in 1..Len(new)}
               /\ old[j] \in {new[k] : k \in 1..Len(new)})
            => PosOf(new, old[i]) < PosOf(new, old[j])
Alive(m) == {m.entities[i].id : i \in {k \in 1..Len(m.entities) : ~m.entities[k].destroyed}}

\* C7: right after refresh no destroyed entity is left in entities or in a
\* group, and the entities that were not destroyed are all still there, in
\* entities and in their group, in the same relative order.
C7_RefreshSweepsDestroyed ==
    [][ (pc' = "refreshed")
        => /\ \A i \in 1..Len(manager'.entities) : ~manager'.entities[i].destroyed
           /\ Ids(manager'.entities) = Alive(manager)
           /\ Len(manager'.entities) = Cardinality(Alive(manager))
           /\ SameOrder(IdSeq(manager.entities), IdSeq(manager'.entities))
           /\ \A i \in 1..Len(manager'.entities) :
                 manager'.entities[i] \in {manager.entities[k] : k \in 1..Len(manager.entities)}
           /\ \A t \in Types :
                 /\ {getAll(manager', t)[i] : i \in 1..Len(getAll(manager', t))}
                       = {id \in Alive(manager) : Deref(manager, id).type = t}
                 /\ Len(getAll(manager', t))
                       = Cardinality({id \in Alive(manager) : Deref(manager, id).type = t})
                 /\ SameOrder(getAll(manager, t), getAll(manager', t)) ]_vars

\* a refresh that removed a destroyed entity and kept two others
C7_Witness ==
    /\ pc = "refreshed"
    /\ Len(manager.entities) = 2
    /\ manager.nextId = 4
    /\ manager.entities[1].type = manager.entities[2].type

\* C8 as stated: with both arrow keys down the paddle is never sent right.
C8_BothKeysNeverRight ==
    (pc = "collide" /\ keys.Left /\ keys.Right) => ThePaddle.vx # PaddleDefVelocity

\* C8: with both arrow keys down the paddle is sent left whenever its left edge
\* is inside the screen (left() > 0); it is sent right only when the left move
\* is gated off, that is when left() <= 0 before the update.
C8_BothKeysLeftUnlessGated ==
    [][ (pc = "update" /\ keys'.Left /\ keys'.Right)
        => /\ left(ThePaddle) > 0 => ThePaddle'.vx = -PaddleDefVelocity
           /\ ThePaddle'.vx = PaddleDefVelocity => left(ThePaddle) <= 0
           /\ ThePaddle'.x = ThePaddle.x + ThePaddle'.vx ]_vars

C8_Witness ==
    /\ pc = "collide" /\ keys.Left /\ keys.Right
    /\ ThePaddle.vx = PaddleDefVelocity

\* C9: an update of a ball marks it destroyed exactly when the move takes its
\* bottom edge below the window (bottom > 600), whatever happens at the side
\* walls in that update.
C9_BottomExitDestroys ==
    [][ (pc = "ball" /\ pc' = "ball_updated")
        => /\ TheBall'.x = TheBall.x + TheBall.vx
           /\ TheBall'.y = TheBall.y + TheBall.vy
           /\ TheBall'.destroyed
                <=> (TheBall.y + TheBall.vy + BallDefRadius > wndHeight) ]_vars

\* a ball that left through the bottom in the update that reflected it at the
\* left wall
C9_Witness ==
    /\ pc = "ball_updated"
    /\ TheBall.destroyed
    /\ left(TheBall) < 0
    /\ TheBall.vx = BallDefVelocity

TheBrick == Deref(manager, getAll(manager, "Brick")[1])

\* C10 as stated: a resolved brick-ball collision reverses exactly one of the
\* two velocity components and leaves the other one unchanged.
C10_ExactlyOneAxisFlips ==
    [][ (pc = "brickball" /\ isIntersecting(TheBrick, TheBall))
        => \/ TheBall'.vx = -TheBall.vx /\ TheBall'.vy = TheBall.vy
           \/ TheBall'.vx = TheBall.vx /\ TheBall'.vy = -TheBall.vy ]_vars

\* C10: a resolved brick-ball collision changes at most one of the two velocity
\* components, both keep magnitude 8 and the ball is not moved; afterwards
\* at least one component points away from the brick's centre; a component
\* that changes is reversed and then points away from the brick's centre on
\* its axis (so when the component chosen already points away, nothing changes).
C10_AtMostOneAxisSetAway ==
    [][ (pc = "brickball" /\ isIntersecting(TheBrick, TheBall))
        => /\ TheBall'.vx = TheBall.vx \/ TheBall'.vy = TheBall.vy
           /\ \/ (TheBall'.vx < 0 <=> TheBall.x < TheBrick.x)
              \/ (TheBall'.vy < 0 <=> TheBall.y < TheBrick.y)
           /\ Abs(TheBall'.vx) = BallDefVelocity /\ Abs(TheBall'.vy) = BallDefVelocity
           /\ TheBall'.x = TheBall.x /\ TheBall'.y = TheBall.y
           /\ TheBall'.vx # TheBall.vx
                => /\ TheBall'.vx = -TheBall.vx
                   /\ (TheBall'.vx < 0 <=> TheBall.x < TheBrick.x)
           /\ TheBall'.vy # TheBall.vy
                => /\ TheBall'.vy = -TheBall.vy
                   /\ (TheBall'.vy < 0 <=> TheBall.y < TheBrick.y) ]_vars

\* a resolved collision: the brick took its last hit and the ball leaves it
\* towards the lower left
C10_Witness ==
    /\ pc = "brickball_solved"
    /\ isIntersecting(TheBrick, TheBall)
    /\ TheBrick.destroyed
    /\ TheBall.x < TheBrick.x /\ TheBall.vx < 0
    /\ TheBall.y > TheBrick.y /\ TheBall.vy > 0

\* C11: a collision pass over a paddle and a ball that intersect leaves the ball
\* with velocity.y = -8 and velocity.x = -8 if the ball's centre x is strictly
\* left of the paddle's centre x and +8 otherwise (so +8 at equal centres); when
\* they do not intersect the velocity is unchanged; the ball is never moved.
C11_PaddleSendsBallUp ==
    [][ (pc = "paddleball")
        => /\ isIntersecting(ThePaddle, TheBall)
                => /\ TheBall'.vy = -8
                   /\ TheBall.x < ThePaddle.x => TheBall'.vx = -8
                   /\ TheBall.x >= ThePaddle.x => TheBall'.vx = 8
           /\ ~isIntersecting(ThePaddle, TheBall)
                => /\ TheBall'.vx = TheBall.vx
                   /\ TheBall'.vy = TheBall.vy
           /\ TheBall'.x = TheBall.x /\ TheBall'.y = TheBall.y
           /\ ThePaddle' = ThePaddle ]_vars

\* a ball whose centre x equals the paddle's, overlapping the paddle's top
\* edge, sent up and to the right
C11_Witness ==
    /\ pc = "paddleball_solved"
    /\ TheBall.x = ThePaddle.x
    /\ bottom(TheBall) > top(ThePaddle) /\ TheBall.y < top(ThePaddle)
    /\ TheBall.vx = 8 /\ TheBall.vy = -8

\* C12: a frame that simulates runs entity update, collision resolution, sweep
\* and render in that order; the sweep leaves no destroyed entity behind and
\* drops every entity flagged during the frame, and the render hands the window
\* exactly the swept registry, so nothing destroyed in a frame is drawn in it.
C12_SweepBeforeRender ==
    [][ /\ (pc = "branch" /\ state = "InProgress") => pc' = "update"
        /\ (pc = "update") => pc' = "collide"
        /\ (pc = "collide") => pc' = "refresh"
        /\ (pc = "refresh")
             => /\ pc' = "draw"
                /\ \A i \in 1..Len(manager'.entities) : ~manager'.entities[i].destroyed
                /\ \A i \in 1..Len(manager.entities) :
                      manager.entities[i].destroyed
                         => manager.entities[i].id \notin Ids(manager'.entities)
        /\ (pc = "draw")
             => /\ pc' = "loop"
                /\ manager' = manager
                /\ drawn' = IdSeq(manager.entities)
                /\ \A k \in 1..Len(drawn') : ~Deref(manager, drawn'[k]).destroyed ]_vars

\* the end of a frame that drew the registry after a brick had been swept
C12_Witness ==
    /\ pc = "loop" /\ state = "InProgress"
    /\ drawn # <<>>
    /\ drawn = IdSeq(manager.entities)
    /\ Count("Brick") < brkCountX * brkCountY

\* the bricks of the registry that sit at the place of grid column c, row r
BricksAt(m, c, r) ==
    {i \in 1..Len(m.entities) :
        /\ m.entities[i].type = "Brick"
        /\ m.entities[i].x = 22 + (c + 1) * 63
        /\ m.entities[i].y = (r + 2) * 23}

\* C13: right after a restart (the call of main or a frame with the restart key
\* down) every grid cell, column c in 0..10 and row r in 0..3, holds exactly one
\* brick, not destroyed, with requiredHits = 1 + ((c * r) mod 3); so every
\* brick has requiredHits in {1, 2, 3} and column 0 and row 0 have only 1.
C13_SeededHits ==
    [][ ((pc = "main" /\ pc' = "loop") \/ (pc = "loop" /\ pc' = "branch" /\ keys'.R))
        => /\ \A c \in 0..10, r \in 0..3 :
                 /\ Cardinality(BricksAt(manager', c, r)) = 1
                 /\ \A i \in BricksAt(manager', c, r) :
                       /\ manager'.entities[i].requiredHits = 1 + ((c * r) % 3)
                       /\ ~manager'.entities[i].destroyed
                       /\ (c = 0 \/ r = 0) => manager'.entities[i].requiredHits = 1
           /\ \A i \in 1..Len(manager'.entities) :
                 manager'.entities[i].type = "Brick"
                    => /\ manager'.entities[i].requiredHits \in {1, 2, 3}
                       /\ \E c \in 0..10, r \in 0..3 : i \in BricksAt(manager', c, r) ]_vars

\* a restart by key, the pause key down too: the brick of column 2, row 3 has 1
\* required hit, the one of column 1, row 2 has 3 and the one of column 1, row 1 has 2
C13_Witness ==
    /\ pc = "branch" /\ keys.R
    /\ pausePressedLastFrame
    /\ \A i \in BricksAt(manager, 2, 3) : manager.entities[i].requiredHits = 1
    /\ \A i \in BricksAt(manager, 1, 2) : manager.entities[i].requiredHits = 3
    /\ \A i \in BricksAt(manager, 1, 1) : manager.entities[i].requiredHits = 2
    /\ Cardinality(BricksAt(manager, 2, 3)) = 1

\* C14: for every pair of shapes (rectangle or circle, any centre and any
\* extents of the bounded range) isIntersecting(A, B) = isIntersecting(B, A),
\* also when the shapes only touch along an edge or at a corner.
C14_IntersectsSymmetric ==
    pc = "intersected" => shapes[3] = shapes[4]

\* a circle and a rectangle that touch at one corner point only, found
\* intersecting in both orders
C14_Witness ==
    /\ pc = "intersected"
    /\ shapes[1].type = "Circle" /\ shapes[2].type = "Rectangle"
    /\ right(shapes[1]) = left(shapes[2])
    /\ bottom(shapes[1]) = top(shapes[2])
    /\ shapes[1].radius > 0 /\ shapes[2].width > 0 /\ shapes[2].height > 0
    /\ shapes[3] /\ shapes[4]

\* a step that runs Game::restart: the call of main or a frame with the restart key
RestartStep ==
    \/ pc = "main" /\ pc' = "loop"
    \/ pc = "loop" /\ pc' = "branch" /\ keys'.R

\* the simulation step of a frame that is in progress
SimulationStep == pc = "branch" /\ state = "InProgress" /\ pc' = "update"

\* C15: the simulation step of an InProgress frame creates one ball (at the
\* spawn point, moving up and left) and takes exactly one life if the ball
\* group is empty when it starts, and otherwise creates nothing and leaves
\* remainingLives alone; a restart sets remainingLives to 3; no other step
\* changes remainingLives.
C15_RespawnCostsOneLife ==
    [][ /\ SimulationStep
             => IF getAll(manager, "Ball") = <<>>
                THEN /\ remainingLives' = remainingLives - 1
                     /\ Len(getAll(manager', "Ball")) = 1
                     /\ Len(manager'.entities) = Len(manager.entities) + 1
                     /\ TheBall' = NewBall(manager.nextId, 400, 300)
                ELSE /\ remainingLives' = remainingLives
                     /\ manager' = manager
        /\ RestartStep => remainingLives' = 3
        /\ (~SimulationStep /\ ~RestartStep) => remainingLives' = remainingLives ]_vars

\* the frame after the first lost ball: a new ball at the spawn point, 2 lives
C15_Witness ==
    /\ pc = "update" /\ state = "InProgress"
    /\ remainingLives = 2
    /\ Count("Ball") = 1
    /\ TheBall.x = 400 /\ TheBall.y = 300
    /\ Count("Brick") < brkCountX * brkCountY

\* the balls of the registry that intersect its first brick
BallsOnBrick(m) ==
    {k \in 1..Len(getAll(m, "Ball")) :
        isIntersecting(Deref(m, getAll(m, "Brick")[1]), Deref(m, getAll(m, "Ball")[k]))}

\* C16: the update and the collision pass of a frame leave the master list and
\* every group as they are, whatever they mark destroyed; an entity leaves
\* the master list only in the sweep (or in the clear of a restart), and the
\* sweep removes exactly the destroyed ones; a brick takes one hit from every
\* ball of the pass that intersects it, also after an earlier hit of the
\* same pass has destroyed it.
C16_RemovedOnlyBySweep ==
    [][ /\ (pc \in {"update", "collide"})
             => /\ IdSeq(manager'.entities) = IdSeq(manager.entities)
                /\ manager'.groupedEntities = manager.groupedEntities
        /\ (Ids(manager.entities) \ Ids(manager'.entities) # {})
             => (pc = "refresh" \/ RestartStep)
        /\ (pc = "refresh") => Ids(manager'.entities) = Alive(manager)
        /\ (pc = "collide")
             => TheBrick'.requiredHits
                   = TheBrick.requiredHits - Cardinality(BallsOnBrick(manager)) ]_vars

\* before the sweep: the brick had one hit left, the first ball destroyed it
\* and the second ball hit it again; it is still in the list and in its group
C16_Witness ==
    /\ pc = "refresh"
    /\ Count("Brick") = 1 /\ Count("Ball") = 2
    /\ TheBrick.destroyed /\ TheBrick.requiredHits = -1
    /\ TheBrick.id \in Ids(manager.entities)

\* C17: the simulation step of an InProgress frame, after its respawn, leaves
\* the state GameOver if remainingLives <= 0, else Victory if the brick group
\* is empty, else InProgress; with no brick and no life left it is GameOver.
C17_GameOverBeatsVictory ==
    [][ SimulationStep
        => state' = IF remainingLives' <= 0 THEN "GameOver"
                    ELSE IF getAll(manager', "Brick") = <<>> THEN "Victory"
                    ELSE "InProgress" ]_vars

\* the last life went in the frame that found the brick group empty
C17_Witness ==
    /\ pc = "update"
    /\ state = "GameOver"
    /\ remainingLives = 0
    /\ Count("Brick") = 0

\* C18: in every reachable state remainingLives is within 0..3, and it is 0
\* only while the state is GameOver: the frame whose respawn takes the last
\* life sets GameOver in the same step, and GameOver frames take no life.
C18_LivesWithinRange ==
    /\ remainingLives \in 0..3
    /\ remainingLives <= 0 => state = "GameOver"

\* the frame that took the last life, still running its update
C18_Witness ==
    /\ pc = "collide"
    /\ remainingLives = 0
    /\ state = "GameOver"
    /\ Count("Ball") = 1

\* C19: a step taken in GameOver or Victory leaves the state as it is, whatever
\* the pause key does, unless it runs restart, and then the state is Paused.
C19_EndStatesAbsorbing ==
    [][ (state \in {"GameOver", "Victory"})
        => IF RestartStep THEN state' = "Paused" ELSE state' = state ]_vars

\* a frame that found the pause key down while the state was Victory
C19_Witness ==
    /\ pc = "branch"
    /\ state = "Victory"
    /\ keys.P /\ ~keys.R
    /\ drawn = <<>>

\* C20: once main has restarted the game and until the loop is left, the
\* registry holds at most one ball, exactly one paddle, not destroyed, and at
\* most 44 bricks, in the groups and in the master list alike; the ball
\* group grows only in a restart or in a simulation step that found it empty.
C20_RegistryInv ==
    (pc \notin {"main", "exited"})
        => /\ Count("Ball") <= 1
           /\ Count("Paddle") = 1
           /\ Count("Brick") <= 44
           /\ ~ThePaddle.destroyed
           /\ Len(manager.entities) = Count("Ball") + Count("Paddle") + Count("Brick")

C20_RegistryBounded ==
    [][ /\ C20_RegistryInv'
        /\ (Len(getAll(manager', "Ball")) > Len(getAll(manager, "Ball")))
             => \/ RestartStep
                \/ SimulationStep /\ getAll(manager, "Ball") = <<>> ]_vars

\* after the sweep of the frame that lost the ball: no ball, the paddle, and
\* fewer than 44 bricks
C20_Witness ==
    /\ pc = "draw"
    /\ Count("Ball") = 0
    /\ Count("Paddle") = 1
    /\ Count("Brick") < 44 /\ Count("Brick") > 0

\* the members of a group, as a set
GroupIds(m, t) == {getAll(m, t)[k] : k \in 1..Len(getAll(m, t))}

\* C21: after any sequence of create, destroyed-flag settings, refresh and
\* clear, every entity of the master list appears exactly once in the group
\* of its own type and in no other group, every member of a group is an
\* entity of the master list of that type, and the master list and each
\* group are in creation order (addresses are numbered as they are created).
C21_GroupsMatchMaster ==
    /\ \A i \in 1..Len(manager.entities) :
          LET e == manager.entities[i]
          IN /\ Cardinality({k \in 1..Len(getAll(manager, e.type)) :
                                getAll(manager, e.type)[k] = e.id}) = 1
             /\ \A t \in Types \ {e.type} : e.id \notin GroupIds(manager, t)
             /\ \A j \in 1..Len(manager.entities) :
                   i < j => e.id < manager.entities[j].id
    /\ \A t \in Types :
          /\ \A k \in 1..Len(getAll(manager, t)) :
                \E i \in 1..Len(manager.entities) :
                   /\ manager.entities[i].id = getAll(manager, t)[k]
                   /\ manager.entities[i].type = t
          /\ \A j \in 1..Len(getAll(manager, t)), k \in 1..Len(getAll(manager, t)) :
                j < k => getAll(manager, t)[j] < getAll(manager, t)[k]
    /\ Len(manager.entities)
          = Len(getAll(manager, "Brick")) + Len(getAll(manager, "Ball"))
               + Len(getAll(manager, "Paddle"))

\* two bricks and a ball created, the ball flagged and swept, then another
\* ball created: the brick group holds the first and third object
C21_Witness ==
    /\ pc = "created"
    /\ getAll(manager, "Brick") = <<1, 3>>
    /\ getAll(manager, "Ball") = <<4>>
    /\ IdSeq(manager.entities) = <<1, 3, 4>>

====
